---- MODULE Spec2Model ----
(***************************************************************************)
(* Live-notification extensions for a discord.py bot: src/twitch.py        *)
(* (TwitchNotifications) and src/youtube.py (YouTubeNotifications).        *)
(*                                                                         *)
(* Each extension is a cog with one periodic task, refresh_notify_check,   *)
(* which polls the platform, runs get_notifications (the tracker that      *)
(* diffs the poll against online_users / running_streams) and sends one    *)
(* message per newly-live stream.  The two cogs share no state; a run of   *)
(* the model follows one of them (loaded).                                 *)
(***************************************************************************)
EXTENDS Integers, Sequences, FiniteSets, TLC

\* Highest stream / video number the platform issues to one channel.
MaxSession == 2
\* Longest configured watch list.
MaxWatch == 2

\* Channel names that may appear in config.json's watchlist.
Names == {"alice", "bob"}
\* The contents of the non-identifying fields of a YouTube search result
\* (title, description, thumbnail, publishedAt): the broadcaster may edit them
\* while the broadcast is running.
Titles == {"t1", "t2"}

VARIABLES
    loaded,           \* which extension this bot runs: "twitch" or "youtube"
    watchlist,        \* config.get()[...]["watchlist"]
    platform,         \* what the platform answered to the most recent poll
    online_users,     \* TwitchNotifications.online_users
    running_streams,  \* YouTubeNotifications.running_streams
    loop,             \* the tasks.loop of refresh_notify_check: "running" or "failed"
    pc,               \* refresh_notify_check: "waiting" for the next tick or "sending"
    streams,          \* the list get_notifications returned to the current / last tick
    sent,             \* outcome of each channel.send attempted in this tick, in order
    raised,           \* the exception that escaped the last tick, or "none"
    quota,            \* the last tick logged "YouTube API quota exceeded."
    polled,           \* the last tick called get_notifications
    reappeared,       \* history: channels live again after being seen live, then absent
    first_returned,   \* history: channels returned by the first call since construction
                      \* whose stream has been live at every poll since
    now,              \* time.time() at the latest tick, in seconds
    expiry,           \* config.json twitch.expiry (0: absent)
    bearer_token,     \* config.json twitch.bearer_token (0: absent)
    header,           \* the cached bearer_headers: the token in it (-1: not computed yet)
    issued,           \* Twitch's side: until when each token is accepted
    grant,            \* the task running _get_bearer_token: "none", "pending", "ok", "failed"
    carried,          \* the token the latest data request carried, and whether it was accepted
    execs             \* executions of get_notifications started side by side

\* Credential state of twitch.py.
tokenVars == <<now, expiry, bearer_token, header, issued, grant, carried>>

vars == <<loaded, watchlist, platform, online_users, running_streams, loop, pc,
          streams, sent, raised, quota, polled, reappeared, first_returned,
          tokenVars, execs>>

(***************************************************************************)
(* Python list helpers                                                     *)
(***************************************************************************)
Range(s) == {s[i] : i \in 1..Len(s)}

\* x in list
InList(x, s) == \E i \in 1..Len(s) : s[i] = x

\* list.index(x) for x in list
FirstIndex(s, x) == CHOOSE i \in 1..Len(s) : s[i] = x /\ \A j \in 1..(i - 1) : s[j] # x

\* list.remove(x): drops the first occurrence; a missing x raises ValueError,
\* which both callers' contexts leave without effect on the list.
ListRemove(s, x) ==
    IF ~InList(x, s) THEN s
    ELSE LET i == FirstIndex(s, x)
         IN SubSeq(s, 1, i - 1) \o SubSeq(s, i + 1, Len(s))

\* The orders in which a response may list the elements of S.
Perms(S) == {p \in [1..Cardinality(S) -> S] : \A x \in S : \E i \in 1..Cardinality(S) : p[i] = x}

\* All watch lists of 1..MaxWatch names, repetitions included.
WatchLists == UNION {[1..n -> Names] : n \in 1..MaxWatch}

(***************************************************************************)
(* The platform: per channel the number of the latest stream, whether it   *)
(* is live now, and its current title.                                     *)
(***************************************************************************)
Offline == [id |-> 0, live |-> FALSE, title |-> "t1"]

\* What one channel can have done between two polls.
ChannelNext(c, titles) ==
    {c}
    \cup {[c EXCEPT !.title = t] : t \in IF c.live THEN titles ELSE {}}
    \cup (IF c.live THEN {[c EXCEPT !.live = FALSE]} ELSE {})
    \cup (IF c.id < MaxSession
          THEN {[id |-> c.id + 1, live |-> TRUE, title |-> t] : t \in titles}
          ELSE {})

\* Twitch's tracker never reads a stream's title: it stays fixed there.
PlatformNext(p, titles) ==
    {q \in [Names -> UNION {ChannelNext(p[n], titles) : n \in Names}] :
        \A n \in Names : q[n] \in ChannelNext(p[n], titles)}

\* The channels whose current stream began after a poll that saw them absent
\* and an earlier poll that saw them live, given the last poll p, the channels
\* r that were so at p, and the new poll q.
Reappeared(p, r, q) ==
    {n \in Names :
        /\ q[n].live
        /\ \/ n \in r /\ p[n].live /\ p[n].id = q[n].id
           \/ ~p[n].live /\ p[n].id >= 1}

\* The channels of first_returned f that the new poll q still shows in the
\* stream the last poll p showed.
StillFirst(p, f, q) == {n \in f : p[n].live /\ q[n].live /\ p[n].id = q[n].id}

(***************************************************************************)
(* src/twitch.py                                                           *)
(***************************************************************************)
UserId(name) == <<"uid", name>>

\* TwitchUser (id, login); the other fields are display data.
TwitchUser(name) == [id |-> UserId(name), login |-> name]

\* helix/users answers with the users of the requested logins, in any order.
UsersResponses(login_names) ==
    {[i \in DOMAIN p |-> [id |-> UserId(p[i]), login |-> p[i]]] : p \in Perms(Range(login_names))}

\* get_users: the entries whose login is one of login_names, in response order.
get_users(login_names, resp) ==
    LET keep(e) == InList(e.login, login_names)
        kept == SelectSeq(resp, keep)
    IN [i \in DOMAIN kept |-> TwitchUser(kept[i].login)]

\* helix/streams answers with the live streams of the requested user ids, in any order.
StreamsResponses(users, p) ==
    LET liveNames == {n \in Names : p[n].live /\ \E i \in 1..Len(users) : users[i].id = UserId(n)}
    IN {[i \in DOMAIN o |-> [id |-> <<o[i], p[o[i]].id>>, user_id |-> UserId(o[i])]] :
            o \in Perms(liveNames)}

\* get_streams: one TwitchStream per entry, user looked up by id among users.
twitch_get_streams(users, resp) ==
    [i \in DOMAIN resp |->
        [id |-> resp[i].id,
         user |-> users[CHOOSE k \in 1..Len(users) : users[k].id = resp[i].user_id]]]

\* discord.utils.get(streams, user__login=user_name): the first match, as a
\* list of at most one element (empty for None).
utils_get(strs, user_name) ==
    LET hit(s) == s.user.login = user_name
        hits == SelectSeq(strs, hit)
    IN IF hits = <<>> THEN <<>> ELSE <<Head(hits)>>

\* Variant: the loop visits the names in the order of the streams response.
TrackerOrderByResponse(wl, strs) ==
    [i \in DOMAIN strs |-> strs[i].user.login]
    \o SelectSeq(wl, LAMBDA n : \A i \in DOMAIN strs : strs[i].user.login # n)
\* The names the tracker's loop visits, in order: for user_name in wl.
TrackerOrder(wl, strs) == wl

\* Variant: the name of a channel that went offline is kept.
KeepOffline(online, user_name) == online
\* A watched name without a live stream: self.online_users.remove(user_name).
DropOffline(online, user_name) == ListRemove(online, user_name)

\* Variant: the membership test never finds the name.
NeverOnline(user_name, online) == FALSE
\* if user_name in self.online_users: continue
AlreadyOnline(user_name, online) == InList(user_name, online)

\* The body of get_notifications' loop, folded over the names still to visit.
RECURSIVE TwitchTrack(_, _, _, _)
TwitchTrack(names, strs, online, cache) ==
    IF names = <<>> THEN [online_users |-> online, cache |-> cache]
    ELSE LET user_name == Head(names)
             stream == utils_get(strs, user_name)
         IN IF stream = <<>>
            THEN TwitchTrack(Tail(names), strs, DropOffline(online, user_name), cache)
            ELSE IF AlreadyOnline(user_name, online)
            THEN TwitchTrack(Tail(names), strs, online, cache)
            ELSE TwitchTrack(Tail(names), strs, Append(online, user_name),
                             Append(cache, stream[1]))

\* get_notifications after both requests succeeded.
twitch_get_notifications(wl, strs, online) ==
    TwitchTrack(TrackerOrder(wl, strs), strs, online, <<>>)

(***************************************************************************)
(* src/youtube.py                                                          *)
(***************************************************************************)
YouTubeChannel(name) == [id |-> <<"UC", name>>, name |-> name]

\* get_channels with every request answered 200: one channel per name, in
\* watch-list order.
get_channels(channel_names) == [i \in DOMAIN channel_names |-> YouTubeChannel(channel_names[i])]

\* Variant: the video id does not tell a channel's broadcasts apart.
YouTubeStreamKeyedByChannel(channel, p) ==
    [channel |-> channel, video_id |-> <<channel.name, 1>>, title |-> p[channel.name].title]
\* YouTubeStream: a NamedTuple, compared field by field.
YouTubeStream(channel, p) ==
    [channel |-> channel, video_id |-> <<channel.name, p[channel.name].id>>,
     title |-> p[channel.name].title]

\* get_streams with every request answered 200: the live stream (maxResults=1)
\* of each channel that has one, in the order of channels.
youtube_get_streams(channels, p) ==
    LET isLive(c) == p[c.name].live
        liveCh == SelectSeq(channels, isLive)
    IN [i \in DOMAIN liveCh |-> YouTubeStream(liveCh[i], p)]

\* for stream in self.running_streams: if stream not in streams: remove(stream)
\* The list iterator holds an index into the list that remove() shortens.
RECURSIVE RemoveEnded(_, _, _)
RemoveEnded(rs, i, strs) ==
    IF i > Len(rs) THEN rs
    ELSE IF ~InList(rs[i], strs)
         THEN RemoveEnded(ListRemove(rs, rs[i]), i + 1, strs)
         ELSE RemoveEnded(rs, i + 1, strs)

\* for stream in streams: skip if in running_streams, else append to both.
RECURSIVE AddStarted(_, _, _)
AddStarted(strs, rs, cache) ==
    IF strs = <<>> THEN [running_streams |-> rs, cache |-> cache]
    ELSE IF InList(Head(strs), rs)
         THEN AddStarted(Tail(strs), rs, cache)
         ELSE AddStarted(Tail(strs), Append(rs, Head(strs)), Append(cache, Head(strs)))

\* get_notifications after both request loops returned a list.
youtube_get_notifications(strs, rs) == AddStarted(strs, RemoveEnded(rs, 1, strs), <<>>)

(***************************************************************************)
(* discord.ext.tasks: @tasks.loop without arguments retries only           *)
(* connection errors (OSError, GatewayNotFound, ConnectionClosed,          *)
(* aiohttp.ClientError, asyncio.TimeoutError); any other exception that    *)
(* leaves the coroutine is logged by the default error handler and ends    *)
(* the loop's task.                                                        *)
(***************************************************************************)
LoopAfter(exc) == IF exc = "none" THEN "running" ELSE "failed"

\* Variant: the rejection is not caught.
SendEscapes(ok) == IF ok THEN "none" ELSE "HTTPException"
\* try: await channel.send(embed=embed) / except discord.HTTPException: the
\* rejection is logged as a warning and nothing leaves the loop body.
SendRaises(ok) == "none"

(***************************************************************************)
(* State machine                                                           *)
(***************************************************************************)
Init ==
    /\ loaded \in {"twitch", "youtube"}
    /\ watchlist \in WatchLists
    /\ platform = [n \in Names |-> Offline]
    /\ online_users = <<>>
    /\ running_streams = <<>>
    /\ loop = "running"
    /\ pc = "waiting"
    /\ streams = <<>>
    /\ sent = <<>>
    /\ raised = "none"
    /\ quota = FALSE
    /\ polled = FALSE
    /\ reappeared = {}
    /\ first_returned = {}
    /\ now = 0
    /\ expiry = 0
    /\ bearer_token = 0
    /\ header = -1
    /\ issued = <<0, 0>>
    /\ grant = "none"
    /\ carried = [sent |-> FALSE, token |-> 0, valid |-> FALSE, stale |-> FALSE]
    /\ execs = <<>>

\* A tick ends with exception exc before any message is sent.
TickFails(exc, didPoll, didQuota) ==
    /\ raised' = exc
    /\ loop' = LoopAfter(exc)
    /\ polled' = didPoll
    /\ quota' = didQuota
    /\ streams' = <<>>
    /\ sent' = <<>>
    /\ pc' = "waiting"
    /\ UNCHANGED <<loaded, watchlist, platform, online_users, running_streams, reappeared,
                   first_returned>>

\* The tick's get_notifications returned cache.
TickPolled(cache) ==
    /\ raised' = "none"
    /\ loop' = "running"
    /\ polled' = TRUE
    /\ quota' = FALSE
    /\ streams' = cache
    /\ sent' = <<>>
    /\ pc' = IF cache = <<>> THEN "waiting" ELSE "sending"
    /\ UNCHANGED <<loaded, watchlist>>

TickEnabled(ext) == loaded = ext /\ loop = "running" /\ pc = "waiting"

\* twitch.py refresh_notify_check: bot.get_channel(...) returned None.
TwitchChannelNotFound ==
    /\ TickEnabled("twitch")
    /\ TickFails("DiscordException", FALSE, FALSE)
    /\ UNCHANGED <<tokenVars, execs>>

\* Variant: the online list is emptied before the error leaves the call.
TwitchRequestFailsAfterReset ==
    /\ TickEnabled("twitch")
    /\ raised' = "TwitchRequestError"
    /\ loop' = LoopAfter("TwitchRequestError")
    /\ polled' = TRUE
    /\ online_users' = <<>>
    /\ UNCHANGED <<loaded, watchlist, platform, running_streams, reappeared, pc, streams,
                   sent, quota, first_returned, tokenVars, execs>>
\* get_users or get_streams got a status other than 200.
TwitchRequestFails ==
    /\ TickEnabled("twitch")
    /\ TickFails("TwitchRequestError", TRUE, FALSE)
    /\ UNCHANGED <<tokenVars, execs>>

\* The channels a call that returned cache leaves in first_returned.
FirstReturned(cache_names, p) ==
    IF ~polled THEN cache_names ELSE StillFirst(platform, first_returned, p)

\* get_notifications with both requests answered 200: the tracker runs on
\* what the platform reports now.
TwitchCall ==
    \E p \in PlatformNext(platform, {"t1"}) :
    \E ur \in UsersResponses(watchlist) :
    LET users == get_users(watchlist, ur)
    IN \E sr \in StreamsResponses(users, p) :
       LET r == twitch_get_notifications(watchlist, twitch_get_streams(users, sr), online_users)
       IN /\ platform' = p
          /\ reappeared' = Reappeared(platform, reappeared, p)
          /\ first_returned' = FirstReturned({r.cache[i].user.login : i \in 1..Len(r.cache)}, p)
          /\ online_users' = r.online_users
          /\ TickPolled(r.cache)
          /\ UNCHANGED running_streams

\* Both requests answered 200: the tracker runs.
TwitchPoll ==
    /\ TickEnabled("twitch")
    /\ TwitchCall
    /\ UNCHANGED <<tokenVars, execs>>

\* youtube.py refresh_notify_check: bot.get_channel(...) returned None.
YouTubeChannelNotFound ==
    /\ TickEnabled("youtube")
    /\ TickFails("DiscordException", FALSE, FALSE)
    /\ UNCHANGED <<tokenVars, execs>>

\* A channels or search request got a non-200 answer with another reason
\* than quotaExceeded.
YouTubeRequestFails ==
    /\ TickEnabled("youtube")
    /\ TickFails("YouTubeRequestError", TRUE, FALSE)
    /\ UNCHANGED <<tokenVars, execs>>

\* A channels request got quotaExceeded: get_channels returns None and
\* get_streams iterates it ("for channel in channels"); or a search request
\* got quotaExceeded: get_streams returns None and get_notifications
\* evaluates "stream not in streams" / "for stream in streams" on it.
YouTubeQuotaExceeded ==
    /\ TickEnabled("youtube")
    /\ TickFails("TypeError", TRUE, TRUE)
    /\ UNCHANGED <<tokenVars, execs>>

\* Every request answered 200: the tracker runs.
YouTubePoll ==
    /\ TickEnabled("youtube")
    /\ \E p \in PlatformNext(platform, Titles) :
       LET strs == youtube_get_streams(get_channels(watchlist), p)
           r == youtube_get_notifications(strs, running_streams)
       IN /\ platform' = p
          /\ reappeared' = Reappeared(platform, reappeared, p)
          /\ first_returned' = FirstReturned({r.cache[i].channel.name : i \in 1..Len(r.cache)}, p)
          /\ running_streams' = r.running_streams
          /\ TickPolled(r.cache)
          /\ UNCHANGED <<online_users, tokenVars, execs>>

\* One pass of "for stream in streams": the send of the next stream is
\* accepted (ok) or rejected with discord.HTTPException.
Send ==
    /\ pc = "sending"
    /\ \E ok \in BOOLEAN :
       LET exc == SendRaises(ok)
       IN /\ sent' = Append(sent, ok)
          /\ raised' = exc
          /\ loop' = LoopAfter(exc)
          /\ pc' = IF exc # "none" \/ Len(sent) + 1 = Len(streams) THEN "waiting" ELSE "sending"
    /\ UNCHANGED <<loaded, watchlist, platform, online_users, running_streams,
                   streams, quota, polled, reappeared, first_returned, tokenVars, execs>>

Next ==
    \/ TwitchChannelNotFound
    \/ TwitchRequestFails
    \/ TwitchPoll
    \/ YouTubeChannelNotFound
    \/ YouTubeRequestFails
    \/ YouTubeQuotaExceeded
    \/ YouTubePoll
    \/ Send

Spec == Init /\ [][Next]_vars

(***************************************************************************)
(* config.json edited between ticks: both get_notifications read the       *)
(* watch list anew at every call.                                          *)
(***************************************************************************)
ChangeWatchList ==
    /\ pc = "waiting"
    /\ loop = "running"
    /\ \E wl \in WatchLists \ {watchlist} : watchlist' = wl
    /\ UNCHANGED <<loaded, platform, online_users, running_streams, loop, pc, streams, sent,
                   raised, quota, polled, reappeared, first_returned, tokenVars, execs>>

NextWatch == Next \/ ChangeWatchList

SpecWatch == Init /\ [][NextWatch]_vars

(***************************************************************************)
(* The bot process is restarted: the cog is constructed again (online      *)
(* state empty) and cog_load starts its loop.  The platform goes on from   *)
(* where it was.                                                           *)
(***************************************************************************)
Restart ==
    /\ online_users' = <<>>
    /\ running_streams' = <<>>
    /\ loop' = "running"
    /\ pc' = "waiting"
    /\ streams' = <<>>
    /\ sent' = <<>>
    /\ raised' = "none"
    /\ quota' = FALSE
    /\ polled' = FALSE
    /\ reappeared' = {}
    /\ first_returned' = {}
    /\ UNCHANGED <<loaded, watchlist, platform, tokenVars, execs>>

NextRestart == Next \/ Restart

SpecRestart == Init /\ [][NextRestart]_vars

(***************************************************************************)
(* The Twitch credential.  config.json holds twitch.bearer_token and       *)
(* twitch.expiry; bearer_headers is a cached_slot_property, so the         *)
(* Authorization header is built once per cog, at the first get_users, by  *)
(* _bearer_token(): that call only schedules _get_bearer_token with        *)
(* create_task when the stored expiry is absent or past, and returns the   *)
(* token config.json holds at that moment.  Tokens are numbered: 0 is no   *)
(* token ("Bearer None"), 1 the token found in config.json at startup,     *)
(* 2 the token a grant returns.                                            *)
(***************************************************************************)
\* @tasks.loop(minutes=2), in seconds.
TickSeconds == 120
\* expiry = time.time() + (expires_in - 10)
ExpiryMargin == 10
\* data['expires_in'] of a grant answer.
ExpiresIn == 200
\* time.time() when cog_load starts the loop; the first tick runs at once.
StartTime == 100
\* The latest time.time() a tick starts at.
MaxTime == 340
\* Until when Twitch accepts the token stored at startup (0: none stored).
StoredUntil == {0, 50, 105, 230, 1000}
\* The access_token of a grant answer.
GrantedToken == 2

\* not self._expiry() or (self._expiry() < time.time())
Stale(e, t) == e = 0 \/ e < t

\* Twitch answers 200 to a data request carrying tok at time t.
Accepted(tok, t) == tok \in {1, 2} /\ t < issued[tok]

InitToken ==
    /\ loaded = "twitch"
    /\ watchlist \in WatchLists
    /\ platform = [n \in Names |-> Offline]
    /\ online_users = <<>>
    /\ running_streams = <<>>
    /\ loop = "running"
    /\ pc = "waiting"
    /\ streams = <<>>
    /\ sent = <<>>
    /\ raised = "none"
    /\ quota = FALSE
    /\ polled = FALSE
    /\ reappeared = {}
    /\ first_returned = {}
    /\ now = StartTime
    /\ \E u \in StoredUntil :
         /\ issued = <<u, 0>>
         /\ bearer_token = IF u = 0 THEN 0 ELSE 1
         /\ expiry = IF u = 0 THEN 0 ELSE u - ExpiryMargin
    /\ header = -1
    /\ grant = "none"
    /\ carried = [sent |-> FALSE, token |-> 0, valid |-> FALSE, stale |-> FALSE]
    /\ execs = <<>>

\* refresh_notify_check found the channel and get_notifications reaches
\* get_users, which evaluates headers=self.bearer_headers: computed at the
\* first evaluation only, later ticks reuse the cached dict.
TokenTickStart ==
    /\ TickEnabled("twitch")
    /\ header # -1 => now + TickSeconds <= MaxTime
    /\ now' = IF header = -1 THEN now ELSE now + TickSeconds
    /\ header' = IF header = -1 THEN bearer_token ELSE header
    /\ grant' = IF header = -1 /\ Stale(expiry, now) THEN "pending" ELSE grant
    /\ pc' = "users"
    /\ UNCHANGED <<loaded, watchlist, platform, online_users, running_streams, loop, streams,
                   sent, raised, quota, polled, reappeared, first_returned,
                   expiry, bearer_token, issued, carried, execs>>

\* What a data request sent now carries.
Carry == [sent |-> TRUE, token |-> header, valid |-> Accepted(header, now),
          stale |-> Stale(expiry, now)]

\* The answer to get_users' request: 200 needs an accepted token.
TokenUsersReply ==
    /\ loaded = "twitch"
    /\ pc = "users"
    /\ carried' = Carry
    /\ \E ok \in BOOLEAN :
         IF Accepted(header, now) /\ ok
         THEN /\ pc' = "streams"
              /\ UNCHANGED <<loaded, watchlist, platform, online_users, running_streams, loop,
                             streams, sent, raised, quota, polled, reappeared, first_returned>>
         ELSE TickFails("TwitchRequestError", TRUE, FALSE)
    /\ UNCHANGED <<now, expiry, bearer_token, header, issued, grant, execs>>

\* The answer to get_streams' request; on 200 the tracker runs.
TokenStreamsReply ==
    /\ loaded = "twitch"
    /\ pc = "streams"
    /\ carried' = Carry
    /\ \E ok \in BOOLEAN :
         IF Accepted(header, now) /\ ok
         THEN TwitchCall
         ELSE TickFails("TwitchRequestError", TRUE, FALSE)
    /\ UNCHANGED <<now, expiry, bearer_token, header, issued, grant, execs>>

\* The task running _get_bearer_token gets its answer: a status other than
\* 200 raises TwitchRequestError inside that task; 200 stores the expiry and
\* the token in config.json.
GrantReply ==
    /\ grant = "pending"
    /\ \E ok \in BOOLEAN :
         IF ok
         THEN /\ expiry' = now + (ExpiresIn - ExpiryMargin)
              /\ bearer_token' = GrantedToken
              /\ issued' = [issued EXCEPT ![GrantedToken] = now + ExpiresIn]
              /\ grant' = "ok"
         ELSE /\ grant' = "failed"
              /\ UNCHANGED <<expiry, bearer_token, issued>>
    /\ UNCHANGED <<loaded, watchlist, platform, online_users, running_streams, loop, pc,
                   streams, sent, raised, quota, polled, reappeared, first_returned,
                   now, header, carried, execs>>

NextToken ==
    \/ TwitchChannelNotFound
    \/ TokenTickStart
    \/ TokenUsersReply
    \/ TokenStreamsReply
    \/ GrantReply
    \/ Send

SpecToken == InitToken /\ [][NextToken]_vars

(***************************************************************************)
(* Two executions of one watcher's get_notifications side by side.  The    *)
(* tasks.loop never starts a tick before the last one returned, so this    *)
(* is get_notifications called again while a call is suspended at an       *)
(* await.  A call is suspended only inside get_users / get_streams         *)
(* (get_channels / get_streams); once the last answer is delivered the     *)
(* tracker loops run without an await.                                     *)
(***************************************************************************)
\* A second execution starts while the first has not returned.
OverlapStart ==
    /\ loop = "running"
    /\ pc = IF execs = <<>> THEN "waiting" ELSE "overlap"
    /\ Len(execs) < 2
    /\ Len(execs) = 1 => execs[1].pc # "done"
    /\ execs' = Append(execs, [pc |-> "requested", snap |-> platform, returned |-> <<>>])
    /\ pc' = "overlap"
    /\ UNCHANGED <<loaded, watchlist, platform, online_users, running_streams, loop, streams,
                   sent, raised, quota, polled, reappeared, first_returned, tokenVars>>

\* The platform answers the requests of an execution i with what it reports now.
OverlapAnswer ==
    \E i \in 1..Len(execs) :
    /\ execs[i].pc = "requested"
    /\ \E p \in PlatformNext(platform, IF loaded = "twitch" THEN {"t1"} ELSE Titles) :
         /\ platform' = p
         /\ execs' = [execs EXCEPT ![i].pc = "answered", ![i].snap = p]
    /\ UNCHANGED <<loaded, watchlist, online_users, running_streams, loop, pc, streams,
                   sent, raised, quota, polled, reappeared, first_returned, tokenVars>>

\* An execution i is resumed with its answer and runs its tracker loops.
OverlapResume ==
    \E i \in 1..Len(execs) :
    /\ execs[i].pc = "answered"
    /\ IF loaded = "twitch"
       THEN \E ur \in UsersResponses(watchlist) :
            LET users == get_users(watchlist, ur)
            IN \E sr \in StreamsResponses(users, execs[i].snap) :
               LET r == twitch_get_notifications(watchlist, twitch_get_streams(users, sr),
                                                 online_users)
               IN /\ online_users' = r.online_users
                  /\ execs' = [execs EXCEPT ![i].pc = "done",
                                            ![i].returned = [k \in DOMAIN r.cache |-> r.cache[k].user.login]]
                  /\ UNCHANGED running_streams
       ELSE LET strs == youtube_get_streams(get_channels(watchlist), execs[i].snap)
                r == youtube_get_notifications(strs, running_streams)
            IN /\ running_streams' = r.running_streams
               /\ execs' = [execs EXCEPT ![i].pc = "done",
                                         ![i].returned = [k \in DOMAIN r.cache |-> r.cache[k].channel.name]]
               /\ UNCHANGED online_users
    /\ UNCHANGED <<loaded, watchlist, platform, loop, pc, streams, sent, raised, quota,
                   polled, reappeared, first_returned, tokenVars>>

\* The loop's first tick: the side-by-side executions start on the empty
\* online state or on the one this tick left.
FirstTick == ~polled /\ (TwitchPoll \/ YouTubePoll)

NextOverlap ==
    \/ FirstTick
    \/ Send
    \/ OverlapStart
    \/ OverlapAnswer
    \/ OverlapResume

SpecOverlap == Init /\ [][NextOverlap]_vars

(***************************************************************************)
(* Properties                                                              *)
(***************************************************************************)
\* A step that is a tick whose get_notifications returned normally.
SuccessfulCall == pc = "waiting" /\ polled' /\ raised' = "none"

\* The state is the one a normally-returned get_notifications left.
AfterSuccessfulCall == polled /\ raised = "none"

\* The watched names with a live stream in poll p.
LiveWatched(p) == {n \in Range(watchlist) : p[n].live}

\* The TwitchStreams of the watched channels in poll p.
TwitchLive(p) == {[id |-> <<n, p[n].id>>, user |-> TwitchUser(n)] : n \in LiveWatched(p)}

\* The YouTubeStreams of the watched channels in poll p.
YouTubeLive(p) == Range(youtube_get_streams(get_channels(watchlist), p))

\* The channel name of a returned stream.
NameOf(s) == IF loaded = "twitch" THEN s.user.login ELSE s.channel.name

\* The names of the returned streams, as a list.
Returned(strs) == [i \in DOMAIN strs |-> NameOf(strs[i])]

\* How often name n is in list l.
Count(l, n) == Cardinality({i \in 1..Len(l) : l[i] = n})

VideoIds(rs) == {rs[i].video_id : i \in 1..Len(rs)}

\* C1: Twitch, fixed watch list, starting from an empty online_users: after
\* every successful get_notifications the names in online_users are exactly
\* the watched names that are live in that call's poll.
C1_OnlineUsersEqualLive ==
    (loaded = "twitch" /\ AfterSuccessfulCall) => Range(online_users) = LiveWatched(platform)

\* C1 witness: a successful Twitch call after which one watched channel is
\* recorded online and another, live at an earlier poll, is no longer recorded.
C1_Witness ==
    /\ loaded = "twitch" /\ AfterSuccessfulCall
    /\ online_users # <<>>
    /\ \E n \in Range(watchlist) : platform[n].id >= 1 /\ ~platform[n].live
                                   /\ ~InList(n, online_users)

\* C2: YouTube: after a successful get_notifications running_streams holds
\* exactly the streams of that call's poll.
C2_RunningStreamsEqualPoll ==
    (loaded = "youtube" /\ AfterSuccessfulCall) => Range(running_streams) = YouTubeLive(platform)

\* C3: both watchers: a successful get_notifications returns exactly the
\* polled streams whose identifier is not in the prior online state, each
\* once, and the identifier of every returned stream is in the new online state.
C3_ReturnsExactlyTheNew ==
    [][SuccessfulCall =>
        /\ Len(streams') = Cardinality(Range(streams'))
        /\ loaded = "twitch" =>
            /\ Range(streams') = {s \in TwitchLive(platform') : ~InList(s.user.login, online_users)}
            /\ \A s \in Range(streams') : InList(s.user.login, online_users')
        /\ loaded = "youtube" =>
            /\ Range(streams') = {s \in YouTubeLive(platform') :
                                    s.video_id \notin VideoIds(running_streams)}
            /\ \A s \in Range(streams') : s.video_id \in VideoIds(running_streams')]_vars

\* C4: both watchers: when a successful call is followed by a successful call
\* whose poll returns the same live set, the second returns nothing and leaves
\* the online state as it was.
C4_SecondCallIdempotent ==
    [][(AfterSuccessfulCall /\ SuccessfulCall /\ platform' = platform) =>
        /\ streams' = <<>>
        /\ online_users' = online_users
        /\ running_streams' = running_streams]_vars

\* C5: both watchers: a watched channel that was live, then absent from a
\* poll, then live again with a new stream is returned exactly once by the
\* first poll that sees it live again, by no poll that sees it absent, and by
\* no later poll while that stream stays live.
C5_ReappearanceOnce ==
    [][SuccessfulCall =>
        \A n \in Range(watchlist) :
            /\ (n \in reappeared' /\ n \notin reappeared) => Count(Returned(streams'), n) = 1
            /\ ~platform'[n].live => Count(Returned(streams'), n) = 0
            /\ (n \in reappeared' /\ n \in reappeared) => Count(Returned(streams'), n) = 0]_vars

\* C6: both watchers: the returned list is ordered by the position of each
\* stream's channel in the watch list, whatever order the responses had.
C6_WatchListOrder ==
    \A i, j \in 1..Len(streams) :
        i < j => FirstIndex(watchlist, NameOf(streams[i])) < FirstIndex(watchlist, NameOf(streams[j]))

\* C6 witness: Twitch returned two streams for a watch list that starts with
\* "bob" (the streams response lists them in either order).
C6_Witness ==
    /\ loaded = "twitch" /\ Len(streams) = 2 /\ watchlist[1] = "bob"
    /\ NameOf(streams[1]) = "bob" /\ NameOf(streams[2]) = "alice"

\* C7: YouTube: a tick that meets quotaExceeded sends nothing, leaves
\* running_streams unchanged and ends without raising an error.
C7_QuotaSkipIsSilent ==
    [][(pc = "waiting" /\ quota') =>
        /\ streams' = <<>> /\ sent' = <<>>
        /\ running_streams' = running_streams
        /\ raised' = "none"]_vars

\* C8: both watchers: every pass of the send loop attempts one send, changes
\* no online state and lets no exception escape, rejected or not; the loop
\* ends only when a send was attempted for every returned stream.
C8_RejectedSendDoesNotStopTick ==
    [][pc = "sending" =>
        /\ Len(sent') = Len(sent) + 1
        /\ raised' = "none" /\ loop' = "running"
        /\ online_users' = online_users /\ running_streams' = running_streams
        /\ streams' = streams
        /\ pc' = "waiting" => Len(sent') = Len(streams')]_vars

\* C8 witness: a send was rejected and a later send of the same tick was attempted.
C8_Witness ==
    /\ Len(sent) = 2 /\ ~sent[1]
    /\ Len(streams) = 2 /\ pc = "waiting" /\ loop = "running"

\* C9: both watchers: a tick that cannot find the destination channel still
\* polls and leaves the timer running.
C9_ChannelMissingKeepsTicking ==
    raised = "DiscordException" => (polled /\ loop = "running")

\* C10: both watchers: after a tick failed with a platform request error the
\* periodic timer is still running.
C10_TimerSurvivesRequestError ==
    raised \in {"TwitchRequestError", "YouTubeRequestError"} => loop = "running"

\* C14: YouTube: a polled stream whose video id is already recorded in
\* running_streams is not returned as newly live, whatever its other fields.
C14_DedupByVideoId ==
    [][(SuccessfulCall /\ loaded = "youtube") =>
        \A s \in Range(streams') : s.video_id \notin VideoIds(running_streams)]_vars

\* A watched channel n is live in the last poll and in the new one, with a
\* different stream identifier in the new one (it went offline and online
\* again between the two polls).
MissedTransition(n) ==
    /\ AfterSuccessfulCall /\ SuccessfulCall
    /\ platform[n].live /\ platform'[n].live /\ platform'[n].id # platform[n].id

\* C15 as claimed: both watchers return a channel with a missed transition
\* as newly live at the second poll.
C15_MissedTransitionReturned ==
    [][\A n \in Range(watchlist) :
        MissedTransition(n) => Count(Returned(streams'), n) = 1]_vars

\* C15 amended: YouTube, which records video ids, returns the channel once at
\* the second poll; Twitch, which records channel names, does not return it.
C15_MissedTransitionByWatcher ==
    [][\A n \in Range(watchlist) :
        MissedTransition(n) =>
            Count(Returned(streams'), n) = IF loaded = "youtube" THEN 1 ELSE 0]_vars

\* C15 witness: Twitch has polled a second stream of a channel that no poll
\* saw absent, and the call returned nothing.
C15_Witness ==
    /\ loaded = "twitch" /\ AfterSuccessfulCall /\ streams = <<>>
    /\ \E n \in Range(watchlist) :
        /\ platform[n].live /\ platform[n].id = 2 /\ n \notin reappeared
        /\ InList(n, online_users)

\* C18: Twitch: a tick whose get_users or get_streams fails raises
\* TwitchRequestError with online_users as it was and nothing to send.
C18_RequestErrorLeavesOnlineUsers ==
    [][(pc = "waiting" /\ raised' = "TwitchRequestError") =>
        /\ online_users' = online_users
        /\ streams' = <<>> /\ sent' = <<>>
        /\ pc' = "waiting"]_vars

\* C18 witness: a Twitch tick failed with TwitchRequestError while a channel
\* was recorded online.
C18_Witness ==
    /\ raised = "TwitchRequestError" /\ online_users # <<>> /\ streams = <<>>

OnlineNames(ou, rs) ==
    IF loaded = "twitch" THEN Range(ou) ELSE {rs[i].channel.name : i \in 1..Len(rs)}

\* C13: both watchers, watch list edited between ticks: after a successful
\* call (a tick, so not the step that edits the watch list) the online state
\* names only channels of the watch list that call read.
C13_OnlineWithinWatchList ==
    [][(SuccessfulCall /\ ~ChangeWatchList)
          => OnlineNames(online_users', running_streams') \subseteq Range(watchlist)]_vars

\* C16: both watchers: the online state changes only in get_notifications
\* (or by construction); the first successful call after construction returns
\* every live watched channel once; and a channel it returned is not returned
\* again by a later call while its stream stays live.
C16_RestartNotifiesOnce ==
    [][/\ (online_users' # online_users \/ running_streams' # running_streams)
            => (SuccessfulCall \/ Restart)
       /\ (SuccessfulCall /\ ~polled) =>
            \A n \in Range(watchlist) :
                Count(Returned(streams'), n) = IF platform'[n].live THEN 1 ELSE 0
       /\ SuccessfulCall =>
            \A n \in first_returned : n \in first_returned' => Count(Returned(streams'), n) = 0]_vars

\* C11: Twitch: every data request carries a token Twitch accepts, and a
\* request made while the stored token is absent or its stored expiry has
\* passed carries the newly granted token.
C11_RequestsCarryValidToken ==
    carried.sent => /\ carried.valid
                    /\ carried.stale => carried.token = GrantedToken

\* C12: Twitch: a failed grant leaves the stored token and expiry as they
\* were; the tick it belongs to ends with TwitchRequestError and the timer
\* keeps running; the next tick starts a grant again.
C12_FailedGrantRetried ==
    [][/\ (grant = "pending" /\ grant' = "failed") => UNCHANGED <<bearer_token, expiry>>
       /\ (grant = "failed" /\ pc # "waiting" /\ pc' = "waiting")
            => (raised' = "TwitchRequestError" /\ loop' = "running")
       /\ (grant = "failed" /\ pc = "waiting" /\ pc' = "users") => grant' = "pending"]_vars

\* Both polls saw the channel live in the same stream.
SameSession(a, b) == a.live /\ b.live /\ a.id = b.id

\* Both side-by-side executions have returned.
BothDone == Len(execs) = 2 /\ execs[1].pc = "done" /\ execs[2].pc = "done"

\* C17: both watchers, two overlapping executions: a watched channel that both
\* polls saw live in the same stream is returned by at most one of them.
C17_OverlapNoDoubleCount ==
    BothDone =>
        \A n \in Range(watchlist) :
            SameSession(execs[1].snap[n], execs[2].snap[n])
                => ~(InList(n, execs[1].returned) /\ InList(n, execs[2].returned))

====
